---- MODULE Spec2Model ----
(***************************************************************************)
(* A model of the bucketed token index of src/src/vortex.rs: the bucket    *)
(* planner (select_buckets_from), the chunked document encoder             *)
(* (document_array_stream), the index build (vortex_index) and the query   *)
(* planner and scans (create_filter, vortex_search, vortex_search_many).   *)
(* An action ends where the code suspends: at the stream's yield and at    *)
(* the awaits of the searches.                                             *)
(*                                                                         *)
(* Strings are sequences of byte values, compared as Rust compares str     *)
(* (bytewise lexicographic).  A list-of-string cell is modelled by the set *)
(* of its elements: a document is a HashSet, so the order in which its     *)
(* tokens reach a list is arbitrary, and the only reader of a list         *)
(* (list_contains) tests membership.                                       *)
(***************************************************************************)
EXTENDS Integers, Sequences, FiniteSets, TLC

(* ------------------------------ bounds -------------------------------- *)
\* longest token sample handed to select_buckets_from on its own
MaxSample == 4
\* largest pivot_count (the command line's `buckets`)
MaxBuckets == 3
\* most lines in the corpus file
MaxLines == 2
\* largest doc_count handed to vortex_index
MaxDocs == 2
\* CHUNK_SIZE ranges over 1..MaxChunk (8192 in the source)
MaxChunk == 2
\* largest `queries` handed to vortex_search_many
MaxQueries == 1

(* ----------------------------- constants ------------------------------ *)
\* `crate::common::documents(1000)`: the documents whose tokens are the
\* sample
SampleDocs == 1000

(* ------------------------------ strings ------------------------------- *)
\* The token universe, as byte strings: "1", "a", "a1".  tokenize() yields
\* lower-cased words that begin and end with an alphanumeric character;
\* '1' (49) sorts below ':' (58), and "a" is a proper prefix of "a1".
Tokens == { <<49>>, <<97>>, <<97, 49>> }

\* "::id::"
ID_COLUMN == <<58, 58, 105, 100, 58, 58>>

\* std::cmp::Ordering, the result of a.cmp(b)
Less == "Less"
Equal == "Equal"
Greater == "Greater"

\* <str as Ord>::cmp: bytewise lexicographic, a proper prefix sorts first
StrCmp(a, b) ==
    LET n == IF Len(a) < Len(b) THEN Len(a) ELSE Len(b)
        diff == { i \in 1..n : a[i] # b[i] }
    IN  IF diff # {}
        THEN LET i == CHOOSE j \in diff : \A k \in diff : j <= k
             IN  IF a[i] < b[i] THEN Less ELSE Greater
        ELSE IF Len(a) < Len(b) THEN Less
        ELSE IF Len(a) > Len(b) THEN Greater
        ELSE Equal

(* ---------------------------- BucketType ------------------------------ *)
\* #[repr(u8)] enum BucketType { Single = 0, Multi = 1 }
Single == 0
Multi == 1

\* derived Ord on (&String, &BucketType): key first, then the discriminant
BucketCmp(x, y) ==
    LET c == StrCmp(x[1], y[1])
    IN  IF c # Equal THEN c
        ELSE IF x[2] < y[2] THEN Less
        ELSE IF x[2] > y[2] THEN Greater
        ELSE Equal

\* format!("{token}:{}", (*self) as u8): the token, ':', then '0' or '1'
column_name(btype, token) == token \o <<58, 48 + btype>>

(* --------------------------- Bucket Planner --------------------------- *)
\* sample_tokens.sort_unstable(): the element at 1-based position i of s
\* lands after every element that is smaller, or equal and earlier.
SortUnstable(s) ==
    LET rank(i) == Cardinality({ j \in 1..Len(s) :
                        \/ StrCmp(s[j], s[i]) = Less
                        \/ (StrCmp(s[j], s[i]) = Equal /\ j < i) })
    IN  [ p \in 1..Len(s) |-> s[CHOOSE i \in 1..Len(s) : rank(i) = p - 1] ]

\* (idx as f64 * (len as f64 / pivot_count as f64)).floor() as usize.
\* For len <= 3100 and pivot_count <= 8 (a sample of SampleDocs documents
\* of at most three tokens each) the f64 product floors to the exact
\* quotient; the first disagreement is len = 2, pivot_count = 98, idx = 49.
CandidateIndex(idx, len, count) == (idx * len) \div count

\* the candidates iterator: one token of the sorted sample per pivot
Candidates(sorted, count) ==
    [ k \in 1..count |-> sorted[CandidateIndex(k - 1, Len(sorted), count) + 1] ]

\* WalkStep with its comparison inverted (== for !=)
WalkStepInverted(st, candidate) ==
    IF candidate = st.previous_candidate
    THEN [ previous_candidate |-> candidate,
           single_value_emitted |-> FALSE,
           buckets |-> Append(st.buckets, <<st.previous_candidate, Multi>>) ]
    ELSE IF ~st.single_value_emitted
    THEN [ previous_candidate |-> candidate,
           single_value_emitted |-> TRUE,
           buckets |-> Append(st.buckets, <<st.previous_candidate, Single>>) ]
    ELSE [ st EXCEPT !.previous_candidate = candidate ]

\* WalkStep without the single_value_emitted test: a Single bucket is pushed
\* for every repeat of a candidate
WalkStepNoFlag(st, candidate) ==
    IF candidate # st.previous_candidate
    THEN [ previous_candidate |-> candidate,
           single_value_emitted |-> FALSE,
           buckets |-> Append(st.buckets, <<st.previous_candidate, Multi>>) ]
    ELSE [ previous_candidate |-> candidate,
           single_value_emitted |-> TRUE,
           buckets |-> Append(st.buckets, <<st.previous_candidate, Single>>) ]

\* one iteration of `for candidate in candidates`, on the loop state
\* [previous_candidate, single_value_emitted, buckets]
WalkStep(st, candidate) ==
    IF candidate # st.previous_candidate
    THEN [ previous_candidate |-> candidate,
           single_value_emitted |-> FALSE,
           buckets |-> Append(st.buckets, <<st.previous_candidate, Multi>>) ]
    ELSE IF ~st.single_value_emitted
    THEN [ previous_candidate |-> candidate,
           single_value_emitted |-> TRUE,
           buckets |-> Append(st.buckets, <<st.previous_candidate, Single>>) ]
    ELSE [ st EXCEPT !.previous_candidate = candidate ]

RECURSIVE Walk(_, _, _)
Walk(cands, k, st) ==
    IF k > Len(cands) THEN st ELSE Walk(cands, k + 1, WalkStep(st, cands[k]))

\* the two assert!s of select_buckets_from, on sample_tokens.len() and
\* pivot_count
PlanningPanics(len, count) == len = 0 \/ count = 0

\* select_buckets_from from `candidates.next().unwrap()` on: the walk over
\* the candidates and the final Multi bucket
PlanOfCandidates(cands) ==
    LET st0 == [ previous_candidate |-> cands[1],
                 single_value_emitted |-> FALSE,
                 buckets |-> <<>> ]
        st == Walk(cands, 2, st0)
    IN  Append(st.buckets, <<st.previous_candidate, Multi>>)

\* select_buckets_from(sample_tokens, pivot_count), past its assertions
select_buckets_from(sample, count) ==
    PlanOfCandidates(Candidates(SortUnstable(sample), count))

(* ---------------------------- binary search --------------------------- *)
\* The loop of <[T]>::binary_search_by (the standard library's since Rust
\* 1.82: no early exit, the size halves each round), on
\* cmps[i] = f(&self[i - 1]), the ordering of each element against the
\* probe; base and size as in the loop.  The field names are searched as
\* they stand, also when they are not sorted as strings.
RECURSIVE SearchLoop(_, _, _)
SearchLoop(cmps, base, size) ==
    IF size > 1
    THEN LET half == size \div 2
             mid == base + half
         IN  SearchLoop(cmps, IF cmps[mid + 1] = Greater THEN base ELSE mid,
                        size - half)
    ELSE base

\* <[T]>::binary_search_by: Ok(idx) is [ok |-> TRUE, idx |-> idx], Err(idx)
\* is [ok |-> FALSE, idx |-> idx]; indices are 0-based as in the source.
binary_search_by(cmps) ==
    IF Len(cmps) = 0 THEN [ok |-> FALSE, idx |-> 0]
    ELSE LET base == SearchLoop(cmps, 0, Len(cmps))
             cmp == cmps[base + 1]
         IN  IF cmp = Equal THEN [ok |-> TRUE, idx |-> base]
             ELSE [ok |-> FALSE, idx |-> base + (IF cmp = Less THEN 1 ELSE 0)]

(* ------------------------------ Encoder ------------------------------- *)
\* buckets.binary_search_by_key(&(&token, &BucketType::Single), ...) and the
\* match on its result: the 0-based bucket a token is appended to
BucketIndex(bkts, token) ==
    LET r == binary_search_by(
                 [ i \in 1..Len(bkts) |-> BucketCmp(bkts[i], <<token, Single>>) ])
    IN  IF r.ok THEN r.idx
        ELSE IF r.idx = 0 THEN 0
        ELSE r.idx - 1

\* the DType of each column: the u64 id, then Bool or List<Utf8> per bucket
ColumnDTypes(bkts) ==
    <<"U64">> \o [ i \in 1..Len(bkts) |->
                     IF bkts[i][2] = Single THEN "Bool" ELSE "List" ]

\* the field names of the StructDType: ID_COLUMN, then one name per bucket
ColumnNames(bkts) ==
    <<ID_COLUMN>> \o [ i \in 1..Len(bkts) |-> column_name(bkts[i][2], bkts[i][1]) ]

\* `for token in document { ... entries_to_append[idx].push(token) }`
PushTokens(entries, bkts, document) ==
    [ i \in 1..Len(entries) |->
        entries[i] \cup { t \in document : BucketIndex(bkts, t) = i - 1 } ]

\* the drain loop without entries.clear() in its Single arm
UnclearedSingle(entries) == entries

\* what the drain loop leaves in a Single bucket's staging buffer
\* (entries.clear())
ClearedSingle(entries) == {}

\* what the drain loop leaves in a Multi bucket's staging buffer
\* (entries.drain(..))
DrainedMulti(entries) == {}

\* the scalar the drain loop appends to builders[idx + 1]
DrainedScalar(btype, entries) ==
    IF btype = Single THEN entries # {} ELSE entries

\* the staging buffers after the drain loop
DrainedEntries(entries, bkts) ==
    [ i \in 1..Len(entries) |->
        IF bkts[i][2] = Single THEN ClearedSingle(entries[i])
        ELSE DrainedMulti(entries[i]) ]

(* --------------------------- Query Planner ---------------------------- *)
\* the closure of create_filter for one token: the column it selects
\* (0-based index into dtype.names()) and the predicate kind
FilterTerm(names, token) ==
    LET needle == column_name(Single, token)
        result == binary_search_by(
                      [ i \in 1..Len(names) |-> StrCmp(names[i], needle) ])
    IN  IF result.ok
        THEN [ idx |-> result.idx, btype |-> Single, token |-> token ]
        ELSE IF result.idx < 1
        THEN [ idx |-> 1, btype |-> Multi, token |-> token ]
        ELSE [ idx |-> result.idx - 1, btype |-> Multi, token |-> token ]

\* the reduction falling back to lit(true) for an empty token set
ReduceAndOrTrue(terms) ==
    IF terms = {} THEN [ kind |-> "lit", value |-> TRUE, terms |-> {} ]
    ELSE [ kind |-> "and", value |-> TRUE, terms |-> terms ]

\* .reduce(vortex_expr::and).unwrap_or_else(|| vortex_expr::lit(false))
ReduceAnd(terms) ==
    IF terms = {} THEN [ kind |-> "lit", value |-> FALSE, terms |-> {} ]
    ELSE [ kind |-> "and", value |-> TRUE, terms |-> terms ]

\* create_filter(dtype, tokens)
create_filter(names, tokens) ==
    ReduceAnd({ FilterTerm(names, t) : t \in tokens })

\* get_item(dtype.names()[idx], ident()): the field is fetched by name
GetItem(names, idx) == CHOOSE c \in 1..Len(names) : names[c] = names[idx + 1]

\* Whether a term can be evaluated on the stored columns: a bare get_item
\* filter needs a Bool column, compute::list_contains needs a List column;
\* on any other column the evaluation returns an error and matches no row.
TermWellTyped(names, dtypes, term) ==
    IF term.btype = Single THEN dtypes[GetItem(names, term.idx)] = "Bool"
    ELSE dtypes[GetItem(names, term.idx)] = "List"

\* one term on row r of a batch (only for a well-typed term)
TermHolds(names, batch, r, term) ==
    IF term.btype = Single THEN batch.fields[GetItem(names, term.idx)][r]
    ELSE term.token \in batch.fields[GetItem(names, term.idx)][r]

\* the rows of one batch that pass the filter
MatchingRows(names, batch, filter) ==
    IF filter.kind = "lit" THEN IF filter.value THEN 1..batch.len ELSE {}
    ELSE { r \in 1..batch.len :
             \A term \in filter.terms : TermHolds(names, batch, r, term) }

(* ----------------------------- tokenize ------------------------------- *)
\* char::is_alphanumeric and char::is_whitespace, on ASCII
IsAlphanumeric(c) == c \in (48..57) \cup (65..90) \cup (97..122)
IsWhitespace(c) == c \in { 9, 10, 11, 12, 13, 32 }

\* document.split_whitespace(): the maximal runs without whitespace, from
\* position i on, cur being the run in progress
RECURSIVE split_whitespace(_, _, _)
split_whitespace(s, i, cur) ==
    LET done == IF cur = <<>> THEN <<>> ELSE << cur >>
    IN  IF i > Len(s) THEN done
        ELSE IF IsWhitespace(s[i]) THEN done \o split_whitespace(s, i + 1, <<>>)
        ELSE split_whitespace(s, i + 1, Append(cur, s[i]))

\* word.trim_matches(|c| !c.is_alphanumeric())
trim_matches(word) ==
    LET keep == { i \in 1..Len(word) : IsAlphanumeric(word[i]) }
    IN  IF keep = {} THEN <<>>
        ELSE SubSeq(word, CHOOSE i \in keep : \A j \in keep : i <= j,
                          CHOOSE i \in keep : \A j \in keep : i >= j)

\* word.to_lowercase(), on ASCII
to_lowercase(word) ==
    [ i \in 1..Len(word) |-> IF word[i] \in 65..90 THEN word[i] + 32 ELSE word[i] ]

\* common::tokenize(document)
tokenize(document) ==
    LET words == split_whitespace(document, 1, <<>>)
        trimmed == { trim_matches(words[i]) : i \in 1..Len(words) }
    IN  { to_lowercase(w) : w \in { v \in trimmed : v # <<>> } }

\* the query texts tried: " !", "A", "1!", "(a1)", "a 1", "a  A1", "1 a1",
\* "a1 1 A"; one for each set of tokens
QueryTexts ==
    { <<32, 33>>, <<65>>, <<49, 33>>, <<40, 97, 49, 41>>, <<97, 32, 49>>,
      <<97, 32, 32, 65, 49>>, <<49, 32, 97, 49>>, <<97, 49, 32, 49, 32, 65>> }

(* ------------------------------ corpus -------------------------------- *)
\* a line of the corpus file, already tokenized: a set of unique tokens
DocTokenSets == SUBSET Tokens

\* common::documents(doc_count): the lines, cycled, cut at doc_count and
\* enumerated from 0; an empty file yields nothing
Documents(file, n) ==
    IF file = <<>> THEN <<>>
    ELSE [ k \in 1..n |-> [ id |-> k - 1,
                            tokens |-> file[((k - 1) % Len(file)) + 1] ] ]

(* ------------------------------ sample -------------------------------- *)
\* The sample of document_array_stream is the tokens of documents(1000),
\* each document's in its HashSet's iteration order, which differs from run
\* to run.  select_buckets_from sorts the sample before it reads it, so the
\* sample is kept as what the sort leaves of it: how many times each token
\* occurs.

\* how many of the first n documents are line i (0-based) of a file of len
\* lines: the number of k in 0..n-1 with k % len = i
TimesYielded(i, len, n) == IF n <= i THEN 0 ELSE (n - i + len - 1) \div len

RECURSIVE TimesSampled(_, _, _)
TimesSampled(file, t, i) ==
    IF i > Len(file) THEN 0
    ELSE (IF t \in file[i] THEN TimesYielded(i - 1, Len(file), SampleDocs) ELSE 0)
             + TimesSampled(file, t, i + 1)

\* documents(1000).map(|(_, doc)| doc.into_iter()).flatten().collect(), as
\* the number of occurrences of each token that occurs
SampleOf(file) ==
    [ t \in UNION { file[i] : i \in 1..Len(file) } |-> TimesSampled(file, t, 1) ]

\* the occurrences of the tokens of S in the sample
RECURSIVE SampleSum(_, _)
SampleSum(sample, S) ==
    IF S = {} THEN 0
    ELSE LET t == CHOOSE u \in S : TRUE
         IN  sample[t] + SampleSum(sample, S \ {t})

\* sample_tokens.len()
SampleLen(sample) == SampleSum(sample, DOMAIN sample)

\* sample_tokens[p] after sample_tokens.sort_unstable(), p from 0: equal
\* tokens are adjacent, smaller tokens come first
SortedAt(sample, p) ==
    CHOOSE t \in DOMAIN sample :
        LET below == SampleSum(sample, { u \in DOMAIN sample : StrCmp(u, t) = Less })
        IN  below <= p /\ p < below + sample[t]

\* the candidates iterator on the sample of the corpus
SampleCandidates(sample, count) ==
    [ k \in 1..count |->
        SortedAt(sample, CandidateIndex(k - 1, SampleLen(sample), count)) ]

\* the occurrences of each token in a sample given as a sequence
CountsOf(s) ==
    [ t \in { s[i] : i \in 1..Len(s) } |-> Cardinality({ i \in 1..Len(s) : s[i] = t }) ]

(* ------------------------------- state -------------------------------- *)
VARIABLES
    pc,                    \* where the run stands
    lines,                 \* the corpus file, one token set per line
    pivot_count,           \* the `buckets: u16` argument
    n_docs,                \* the `doc_count: usize` argument
    chunk,                 \* the value of CHUNK_SIZE
    sample_tokens,         \* the sample of a call of select_buckets_from
                           \* on its own
    buckets,               \* the bucket plan
    names,                 \* struct_dtype.names()
    column_dtypes,         \* the DType of each column
    file_opened,           \* the store file has been opened and truncated
    entries_to_append,     \* the per-bucket staging buffers
    documents,             \* how many documents the iterator has yielded
    might_have_more_docs,  \* the outer loop's flag
    builders,              \* the current chunk's column builders
    doc_count,             \* rows in the current chunk
    emitted,               \* the batches yielded so far, in order
    query_text,            \* the `query: &str` argument of vortex_search
    queries,               \* the `queries: usize` argument of vortex_search_many
    next_query,            \* how many documents vortex_search_many's loop has pulled
    matches,               \* vortex_search_many's running total
    query,                 \* the token set handed to create_filter
    filter,                \* the predicate create_filter built
    scan_error,            \* the scan failed evaluating the predicate
    matched,               \* ids of the rows that passed the filter
    count                  \* the sum of the per-batch match counts

vars == << pc, lines, pivot_count, n_docs, chunk, sample_tokens, buckets, names,
           column_dtypes, file_opened, entries_to_append, documents,
           might_have_more_docs, builders, doc_count, emitted, query_text,
           queries, next_query, matches, query, filter, scan_error, matched,
           count >>

inputs == << lines, pivot_count, n_docs, chunk >>
planVars == << sample_tokens, buckets, names, column_dtypes >>
streamVars == << entries_to_append, documents, might_have_more_docs, builders,
                 doc_count, emitted >>
searchVars == << query_text, queries, next_query, matches, query, filter,
                 scan_error, matched, count >>

\* const CHUNK_SIZE: usize
CHUNK_SIZE == chunk

\* the documents the encoder's source will yield
Docs == Documents(lines, n_docs)

NoFilter == [ kind |-> "none", value |-> FALSE, terms |-> {} ]

RECURSIVE SeqsUpTo(_, _)
SeqsUpTo(S, n) ==
    IF n = 0 THEN { <<>> }
    ELSE LET shorter == SeqsUpTo(S, n - 1)
         IN  shorter \cup { Append(q, x) : q \in { r \in shorter : Len(r) = n - 1 },
                                           x \in S }

Idle ==
    /\ sample_tokens = <<>>
    /\ buckets = <<>>
    /\ names = <<>>
    /\ column_dtypes = <<>>
    /\ file_opened = FALSE
    /\ entries_to_append = <<>>
    /\ documents = 0
    /\ might_have_more_docs = FALSE
    /\ builders = <<>>
    /\ doc_count = 0
    /\ emitted = <<>>
    /\ query_text = <<>>
    /\ queries = 0
    /\ next_query = 0
    /\ matches = 0
    /\ query = {}
    /\ filter = NoFilter
    /\ scan_error = FALSE
    /\ matched = {}
    /\ count = 0

\* the process before vortex_index runs, over every corpus and argument
Init ==
    /\ pc = "start"
    /\ lines \in SeqsUpTo(DocTokenSets, MaxLines)
    /\ pivot_count \in 0..MaxBuckets
    /\ n_docs \in 0..MaxDocs
    /\ chunk \in 1..MaxChunk
    /\ Idle

(* ------------------------------ indexing ------------------------------ *)
\* document_array_stream up to the point where the stream is returned:
\* the sample is collected, select_buckets_from panics or returns the plan,
\* and the schema is derived from the plan
Plan ==
    /\ pc = "start"
    /\ LET sample == SampleOf(lines)
       IN  IF PlanningPanics(SampleLen(sample), pivot_count)
           THEN /\ pc' = "panicked"
                /\ UNCHANGED << buckets, names, column_dtypes >>
           ELSE LET plan == PlanOfCandidates(SampleCandidates(sample, pivot_count))
                IN  /\ pc' = "stream_ready"
                    /\ buckets' = plan
                    /\ names' = ColumnNames(plan)
                    /\ column_dtypes' = ColumnDTypes(plan)
    /\ UNCHANGED << inputs, sample_tokens, file_opened, streamVars, searchVars >>

\* the store opened before document_array_stream is awaited
StoreOpensEarly(at) == at \in { "start", "stream_ready" }

\* where vortex_index opens the store: after document_array_stream returned
StoreOpensAt(at) == at = "stream_ready"

\* vortex_index_array: OpenOptions ... .truncate(true).create(true).open()
OpenFile ==
    /\ StoreOpensAt(pc)
    /\ file_opened' = TRUE
    /\ pc' = "writing"
    /\ UNCHANGED << inputs, planVars, streamVars, searchVars >>

\* builder_with_capacity for every column
FreshBuilders == [ c \in 1..Len(column_dtypes) |-> <<>> ]

\* the writer's first poll of the stream: the code before the outer loop,
\* and the first chunk's builders
StreamStart ==
    /\ pc = "writing"
    /\ entries_to_append' = [ i \in 1..Len(buckets) |-> {} ]
    /\ documents' = 0
    /\ might_have_more_docs' = TRUE
    /\ builders' = FreshBuilders
    /\ doc_count' = 0
    /\ pc' = "stream"
    /\ UNCHANGED << inputs, planVars, file_opened, emitted, searchVars >>

\* the inner loop's test written with <=
ChunkHasRoomInclusive(rows, size) == rows <= size

\* `while doc_count < CHUNK_SIZE`
ChunkHasRoom(rows, size) == rows < size

\* one iteration of the inner loop on Some((id, document)); every scalar
\* appended has the DType of its builder, so no append_scalar fails
EncodeDocument ==
    /\ pc = "stream"
    /\ ChunkHasRoom(doc_count, CHUNK_SIZE)
    /\ documents < Len(Docs)
    /\ LET doc == Docs[documents + 1]
           staged == PushTokens(entries_to_append, buckets, doc.tokens)
       IN  /\ builders' = [ c \in 1..Len(builders) |->
                   IF c = 1 THEN Append(builders[c], doc.id)
                   ELSE Append(builders[c],
                               DrainedScalar(buckets[c - 1][2], staged[c - 1])) ]
           /\ entries_to_append' = DrainedEntries(staged, buckets)
    /\ documents' = documents + 1
    /\ doc_count' = doc_count + 1
    /\ UNCHANGED << pc, inputs, planVars, file_opened, might_have_more_docs,
                    emitted, searchVars >>

\* StructArray::try_new_with_dtype(fields, ..., doc_count, ...)
Batch == [ len |-> doc_count, fields |-> builders ]

\* the inner loop ends because the chunk is full: the builders are
\* finished into a batch and the stream is suspended at `yield`
ChunkFull ==
    /\ pc = "stream"
    /\ ~ChunkHasRoom(doc_count, CHUNK_SIZE)
    /\ emitted' = Append(emitted, Batch)
    /\ builders' = <<>>
    /\ pc' = "yielded"
    /\ UNCHANGED << inputs, planVars, file_opened, entries_to_append,
                    documents, might_have_more_docs, doc_count, searchVars >>

\* documents.next() is None: the flag is cleared, the inner loop is left,
\* the builders are finished into a batch and the stream is suspended at
\* `yield`
SourceExhausted ==
    /\ pc = "stream"
    /\ ChunkHasRoom(doc_count, CHUNK_SIZE)
    /\ documents = Len(Docs)
    /\ might_have_more_docs' = FALSE
    /\ emitted' = Append(emitted, Batch)
    /\ builders' = <<>>
    /\ pc' = "yielded"
    /\ UNCHANGED << inputs, planVars, file_opened, entries_to_append, documents,
                    doc_count, searchVars >>

\* the writer polls again and the outer loop's test passes: the next
\* chunk's builders and row count
NextChunk ==
    /\ pc = "yielded"
    /\ might_have_more_docs
    /\ builders' = FreshBuilders
    /\ doc_count' = 0
    /\ pc' = "stream"
    /\ UNCHANGED << inputs, planVars, file_opened, entries_to_append, documents,
                    might_have_more_docs, emitted, searchVars >>

\* the writer polls again and the outer loop's test fails: the stream
\* completes
StreamEnds ==
    /\ pc = "yielded"
    /\ ~might_have_more_docs
    /\ pc' = "stream_done"
    /\ UNCHANGED << inputs, planVars, file_opened, streamVars, searchVars >>

\* write_array_stream returns: the file is complete and vortex_index
\* returns
WriterFinishes ==
    /\ pc = "stream_done"
    /\ pc' = "written"
    /\ UNCHANGED << inputs, planVars, file_opened, streamVars, searchVars >>

(* ------------------------------ searching ----------------------------- *)
\* file.scan().with_filter(filter): the ids of the rows that pass, and the
\* per-batch counts summed.  A term that cannot be evaluated on its column
\* fails the scan.
RECURSIVE CountRows(_, _, _, _)
CountRows(cols, batches, f, k) ==
    IF k > Len(batches) THEN 0
    ELSE Cardinality(MatchingRows(cols, batches[k], f))
             + CountRows(cols, batches, f, k + 1)

MatchedIds(cols, batches, f) ==
    UNION { { batches[k].fields[1][r] : r \in MatchingRows(cols, batches[k], f) } :
            k \in 1..Len(batches) }

\* the scan cannot evaluate the filter on the file's columns
ScanFails(f) == \E term \in f.terms : ~TermWellTyped(names, column_dtypes, term)

\* vortex_search: vortex_file(path).await has returned the file and its
\* dtype
SearchOpen ==
    /\ pc = "written"
    /\ pc' = "search_opened"
    /\ UNCHANGED << inputs, planVars, file_opened, streamVars, searchVars >>

\* vortex_search: create_filter(&dtype, tokenize(query)) and the scan built
\* from it, up to the await of the scan's tasks
SearchFilter ==
    /\ pc = "search_opened"
    /\ \E text \in QueryTexts :
         /\ query_text' = text
         /\ query' = tokenize(text)
         /\ filter' = create_filter(names, tokenize(text))
    /\ pc' = "search_filtered"
    /\ UNCHANGED << inputs, planVars, file_opened, streamVars, queries,
                    next_query, matches, scan_error, matched, count >>

\* vortex_search: the scan's tasks complete, with an error or with the
\* per-batch counts, which are summed
SearchScan ==
    /\ pc = "search_filtered"
    /\ scan_error' = ScanFails(filter)
    /\ matched' = IF ScanFails(filter) THEN {} ELSE MatchedIds(names, emitted, filter)
    /\ count' = IF ScanFails(filter) THEN 0 ELSE CountRows(names, emitted, filter, 1)
    /\ pc' = "searched"
    /\ UNCHANGED << inputs, planVars, file_opened, streamVars, query_text,
                    queries, next_query, matches, query, filter >>

\* the documents vortex_search_many queries for
QueryDocs == Documents(lines, queries)

\* vortex_search_many: vortex_file(path).await has returned; matches = 0
SearchManyOpen ==
    /\ pc = "written"
    /\ \E n \in 0..MaxQueries : queries' = n
    /\ next_query' = 0
    /\ matches' = 0
    /\ pc' = "many_opened"
    /\ UNCHANGED << inputs, planVars, file_opened, streamVars, query_text,
                    query, filter, scan_error, matched, count >>

\* vortex_search_many: the loop pulls the next document and builds its
\* filter and scan, up to the await of the scan's tasks
SearchManyFilter ==
    /\ pc = "many_opened"
    /\ next_query < Len(QueryDocs)
    /\ query' = QueryDocs[next_query + 1].tokens
    /\ filter' = create_filter(names, QueryDocs[next_query + 1].tokens)
    /\ next_query' = next_query + 1
    /\ pc' = "many_filtered"
    /\ UNCHANGED << inputs, planVars, file_opened, streamVars, query_text,
                    queries, matches, scan_error, matched, count >>

\* vortex_search_many: the scan's tasks complete; an error leaves the
\* function through `?`, counts are added to matches
SearchManyScan ==
    /\ pc = "many_filtered"
    /\ scan_error' = ScanFails(filter)
    /\ matched' = IF ScanFails(filter) THEN {} ELSE MatchedIds(names, emitted, filter)
    /\ count' = IF ScanFails(filter) THEN 0 ELSE CountRows(names, emitted, filter, 1)
    /\ matches' = IF ScanFails(filter) THEN matches
                  ELSE matches + CountRows(names, emitted, filter, 1)
    /\ pc' = IF ScanFails(filter) THEN "many_failed" ELSE "many_opened"
    /\ UNCHANGED << inputs, planVars, file_opened, streamVars, query_text,
                    queries, next_query, query, filter >>

\* vortex_search_many: the documents are used up and the total is printed
SearchManyDone ==
    /\ pc = "many_opened"
    /\ next_query = Len(QueryDocs)
    /\ pc' = "many_done"
    /\ UNCHANGED << inputs, planVars, file_opened, streamVars, searchVars >>

Next ==
    \/ Plan
    \/ OpenFile
    \/ StreamStart
    \/ EncodeDocument
    \/ ChunkFull
    \/ SourceExhausted
    \/ NextChunk
    \/ StreamEnds
    \/ WriterFinishes
    \/ SearchOpen
    \/ SearchFilter
    \/ SearchScan
    \/ SearchManyOpen
    \/ SearchManyFilter
    \/ SearchManyScan
    \/ SearchManyDone

Spec == Init /\ [][Next]_vars

(* ----------------------- the planner on its own ----------------------- *)
\* the sample ["a","a","b","c","c","c"] of the specification's scenario
ScenarioSample == << <<97>>, <<97>>, <<98>>, <<99>>, <<99>>, <<99>> >>

\* a call of select_buckets_from on any sample and pivot_count
InitPlan ==
    /\ pc = "call"
    /\ sample_tokens \in SeqsUpTo(Tokens, MaxSample) \cup { ScenarioSample }
    /\ pivot_count \in 0..MaxBuckets
    /\ lines = <<>>
    /\ n_docs = 0
    /\ chunk = 1
    /\ buckets = <<>>
    /\ names = <<>>
    /\ column_dtypes = <<>>
    /\ file_opened = FALSE
    /\ entries_to_append = <<>>
    /\ documents = 0
    /\ might_have_more_docs = FALSE
    /\ builders = <<>>
    /\ doc_count = 0
    /\ emitted = <<>>
    /\ query_text = <<>>
    /\ queries = 0
    /\ next_query = 0
    /\ matches = 0
    /\ query = {}
    /\ filter = NoFilter
    /\ scan_error = FALSE
    /\ matched = {}
    /\ count = 0

\* one of the assertions fails
SelectBucketsPanics ==
    /\ pc = "call"
    /\ PlanningPanics(Len(sample_tokens), pivot_count)
    /\ pc' = "panicked"
    /\ UNCHANGED << inputs, planVars, file_opened, streamVars, searchVars >>

\* the call returns the plan
SelectBucketsReturns ==
    /\ pc = "call"
    /\ ~PlanningPanics(Len(sample_tokens), pivot_count)
    /\ buckets' = select_buckets_from(sample_tokens, pivot_count)
    /\ pc' = "returned"
    /\ UNCHANGED << inputs, sample_tokens, names, column_dtypes, file_opened,
                    streamVars, searchVars >>

NextPlan == SelectBucketsPanics \/ SelectBucketsReturns

SpecPlan == InitPlan /\ [][NextPlan]_vars

(* ------------------------------- claims ------------------------------- *)
\* s is strictly increasing under (key ascending, Single before Multi)
StrictlySorted(s) ==
    \A i \in 1..(Len(s) - 1) : BucketCmp(s[i], s[i + 1]) = Less

\* C3: for every non-empty sample and pivot_count >= 1, the plan returned by
\* select_buckets_from is strictly increasing under (key, Single before
\* Multi), has at most pivot_count buckets, and ends in a Multi bucket.
C3_PlanSortedBoundedMultiLast ==
    pc = "returned" =>
        /\ StrictlySorted(buckets)
        /\ Len(buckets) >= 1
        /\ Len(buckets) <= pivot_count
        /\ buckets[Len(buckets)][2] = Multi

\* a returned plan that holds a Single bucket and fills every pivot
C3_Witness ==
    /\ pc = "returned"
    /\ Len(buckets) = MaxBuckets
    /\ \E i \in 1..Len(buckets) : buckets[i][2] = Single

\* C5 as stated: the scenario's candidates are "a", "b", "c" and its plan is
\* [("a", Single), ("b", Multi), ("c", Multi)].
C5_ScenarioAsStated ==
    (pc = "returned" /\ sample_tokens = ScenarioSample /\ pivot_count = 3) =>
        /\ Candidates(SortUnstable(sample_tokens), pivot_count)
               = << <<97>>, <<98>>, <<99>> >>
        /\ buckets = << << <<97>>, Single >>, << <<98>>, Multi >>,
                        << <<99>>, Multi >> >>

\* C5, amended: the scenario's candidates are "a", "b", "c", pairwise
\* distinct, so its plan is [("a", Multi), ("b", Multi), ("c", Multi)].
C5_ScenarioPlan ==
    (pc = "returned" /\ sample_tokens = ScenarioSample /\ pivot_count = 3) =>
        /\ Candidates(SortUnstable(sample_tokens), pivot_count)
               = << <<97>>, <<98>>, <<99>> >>
        /\ buckets = << << <<97>>, Multi >>, << <<98>>, Multi >>,
                        << <<99>>, Multi >> >>

\* the scenario's call has returned
C5_Witness ==
    pc = "returned" /\ sample_tokens = ScenarioSample /\ pivot_count = 3

(* ---------------------- claims about the index ------------------------ *)
\* every batch encoded so far: the yielded ones, then the chunk in progress
AllBatches == IF pc = "stream" THEN Append(emitted, Batch) ELSE emitted

\* where a search stands
SearchPcs == { "search_opened", "search_filtered", "searched", "many_opened",
               "many_filtered", "many_failed", "many_done" }

\* the stream has returned None
AfterStream == { "stream_done", "written" } \cup SearchPcs

\* the source was found exhausted and the last batch handed over
SourceDrained == (pc = "yielded" /\ ~might_have_more_docs) \/ pc \in AfterStream

\* the plan is in place
Planned == pc \in { "stream_ready", "writing", "stream", "yielded" } \cup AfterStream

\* a scan has come back, for vortex_search or for the latest query of
\* vortex_search_many
Answered ==
    \/ pc \in { "searched", "many_failed" }
    \/ (pc \in { "many_opened", "many_done" } /\ next_query > 0)

RECURSIVE ConcatIds(_, _)
ConcatIds(batches, k) ==
    IF k > Len(batches) THEN <<>>
    ELSE batches[k].fields[1] \o ConcatIds(batches, k + 1)

\* the documents that hold every token of q
Containing(q) == { Docs[k].id : k \in { j \in 1..Len(Docs) : q \subseteq Docs[j].tokens } }

\* C1: for a non-empty query, the rows the filter matches are exactly the
\* documents whose token set contains every query token.
C1_ExactContainment ==
    (Answered /\ query # {}) => matched = Containing(query)

\* C2: for every token, the column the query planner selects is the column
\* of the bucket the encoder appends the token to (bucket i, column i + 1).
C2_SameBucketBothWays ==
    Planned =>
        \A t \in Tokens : FilterTerm(names, t).idx = BucketIndex(buckets, t) + 1

\* C4: a token is staged in a Single bucket only if it is that bucket's
\* key, so a Single cell is true exactly when the document holds the key,
\* and every other token of the document is in exactly one Multi list.
C4_NoTokenLostSingleExact ==
    Planned =>
        /\ \A t \in Tokens :
              LET b == buckets[BucketIndex(buckets, t) + 1]
              IN  b[2] = Single => b[1] = t
        /\ \A k \in 1..Len(AllBatches) : \A r \in 1..AllBatches[k].len :
              LET row(c) == AllBatches[k].fields[c][r]
                  tokens == Docs[row(1) + 1].tokens
                  singles == { i \in 1..Len(buckets) : buckets[i][2] = Single }
                  multis == { i \in 1..Len(buckets) : buckets[i][2] = Multi }
              IN  /\ \A i \in singles : row(i + 1) = (buckets[i][1] \in tokens)
                  /\ \A t \in tokens :
                        (\A i \in singles : buckets[i][1] # t) =>
                            Cardinality({ i \in multis : t \in row(i + 1) }) = 1

\* C6: every batch holds at most CHUNK_SIZE rows, and the id columns of the
\* batches, concatenated in emission order, are the ids of the documents
\* pulled so far, in order; once the stream is complete they are the whole
\* source.
C6_BatchesPartitionSource ==
    /\ \A k \in 1..Len(AllBatches) :
          /\ AllBatches[k].len <= CHUNK_SIZE
          /\ \A c \in 1..Len(AllBatches[k].fields) :
                Len(AllBatches[k].fields[c]) = AllBatches[k].len
    /\ ConcatIds(AllBatches, 1) = [ i \in 1..documents |-> Docs[i].id ]
    /\ SourceDrained => documents = Len(Docs)

\* the stream is complete, over several batches, with a full source
C6_Witness ==
    /\ pc = "written"
    /\ Len(emitted) >= 2
    /\ Len(Docs) = MaxDocs
    /\ \E k \in 1..Len(emitted) : emitted[k].len = CHUNK_SIZE /\ CHUNK_SIZE > 1

\* the cell of bucket i (1-based) for a document, from the document and the
\* plan alone
CellOf(bkts, i, tokens) ==
    LET landed == { t \in tokens : BucketIndex(bkts, t) = i - 1 }
    IN  IF bkts[i][2] = Single THEN landed # {} ELSE landed

\* C7: between documents every staging buffer is empty, and every encoded
\* row is a function of its document and the plan alone, whatever the chunk
\* size and whatever was encoded before it.
C7_RowDependsOnDocumentOnly ==
    pc \in { "stream", "yielded" } \cup AfterStream =>
        /\ \A i \in 1..Len(entries_to_append) : entries_to_append[i] = {}
        /\ Len(entries_to_append) = Len(buckets)
        /\ \A k \in 1..Len(AllBatches) : \A r \in 1..AllBatches[k].len :
              \A i \in 1..Len(buckets) :
                AllBatches[k].fields[i + 1][r]
                    = CellOf(buckets, i, Docs[AllBatches[k].fields[1][r] + 1].tokens)

\* a document whose Single cell is true was followed, across a chunk
\* boundary, by one whose Single cell is false
C7_Witness ==
    /\ pc = "written"
    /\ Len(emitted) >= 2
    /\ \E i \in 1..Len(buckets) :
          /\ buckets[i][2] = Single
          /\ emitted[1].len >= 1
          /\ emitted[2].len >= 1
          /\ emitted[1].fields[i + 1][emitted[1].len]
          /\ ~emitted[2].fields[i + 1][1]

\* C8: an empty query yields the literal false and matches nothing.
C8_EmptyQueryMatchesNothing ==
    (Answered /\ query = {}) =>
        /\ filter.kind = "lit"
        /\ filter.value = FALSE
        /\ ~scan_error
        /\ matched = {}
        /\ count = 0

\* an empty query was run against an index that holds documents
C8_Witness ==
    /\ pc = "searched"
    /\ query = {}
    /\ Len(Docs) >= 1
    /\ \E k \in 1..Len(emitted) : emitted[k].len >= 1

\* C9: with an empty sample or a zero pivot_count the run never gets past
\* select_buckets_from: the store is not opened and nothing is encoded or
\* emitted; and whenever the store is open or a document has been encoded,
\* the plan of the whole sample is already in place.
C9_PlanningPrecedesIO ==
    /\ PlanningPanics(SampleLen(SampleOf(lines)), pivot_count) =>
          /\ pc \in { "start", "panicked" }
          /\ ~file_opened
          /\ documents = 0 /\ builders = <<>> /\ emitted = <<>>
    /\ pc = "panicked" => PlanningPanics(SampleLen(SampleOf(lines)), pivot_count)
    /\ (file_opened \/ documents > 0 \/ builders # <<>> \/ emitted # <<>>) =>
          /\ ~PlanningPanics(SampleLen(SampleOf(lines)), pivot_count)
          /\ buckets = PlanOfCandidates(SampleCandidates(SampleOf(lines), pivot_count))
          /\ names = ColumnNames(buckets)

\* the run has aborted in the planner on a file that has lines
C9_Witness ==
    pc = "panicked" /\ lines # <<>> /\ n_docs > 0

\* C10: every term of a filter create_filter built selects a bucket column
\* (index >= 1), a ListContains term a list column and a bare column term a
\* boolean one.
C10_FilterWellTyped ==
    pc \in SearchPcs =>
        \A term \in filter.terms :
            /\ term.idx >= 1
            /\ term.btype = Multi => column_dtypes[term.idx + 1] = "List"
            /\ term.btype = Single => column_dtypes[term.idx + 1] = "Bool"

(* -------------------- claims about the plan's shape ------------------- *)
\* the plan of a sample is the plan of its token counts: the order in which
\* the tokens were collected does not reach the plan
SampleOrderIrrelevant ==
    pc = "returned" =>
        buckets = PlanOfCandidates(SampleCandidates(CountsOf(sample_tokens), pivot_count))

\* the candidates the last call of select_buckets_from walked
PlanCandidates == Candidates(SortUnstable(sample_tokens), pivot_count)

\* how many candidates equal k
Occurrences(cands, k) == Cardinality({ i \in 1..Len(cands) : cands[i] = k })

\* C11: the keys of the plan are the distinct candidates; every distinct
\* candidate k has exactly one (k, Multi) bucket; (k, Single) is in the plan
\* exactly when k occurs at least twice among the candidates, once, and is
\* then immediately followed by (k, Multi); so no Single bucket is last.
C11_PlanMirrorsCandidates ==
    pc = "returned" =>
        LET cands == PlanCandidates
            keys == { cands[i] : i \in 1..Len(cands) }
            at(k, btype) == { i \in 1..Len(buckets) : buckets[i] = <<k, btype>> }
        IN  /\ { buckets[i][1] : i \in 1..Len(buckets) } = keys
            /\ \A k \in keys :
                  /\ Cardinality(at(k, Multi)) = 1
                  /\ Cardinality(at(k, Single))
                        = (IF Occurrences(cands, k) >= 2 THEN 1 ELSE 0)
                  /\ \A i \in at(k, Single) :
                        i < Len(buckets) /\ buckets[i + 1] = <<k, Multi>>
            /\ buckets[Len(buckets)][2] # Single

\* a plan in which one key recurs among the candidates (a Single bucket
\* for it) and another key occurs once (none)
C11_Witness ==
    /\ pc = "returned"
    /\ \E k \in Tokens : Occurrences(PlanCandidates, k) >= 2
    /\ \E k \in Tokens : Occurrences(PlanCandidates, k) = 1

(* ----------------- termination of the encoder stream ------------------ *)
\* the writer polls the stream until it completes, so a stream step that
\* can be taken is taken
StreamStep ==
    EncodeDocument \/ ChunkFull \/ SourceExhausted \/ NextChunk \/ StreamEnds

SpecLive == Init /\ [][Next]_vars /\ WF_vars(StreamStep)

\* the batch counts of a stream: full batches while the source lasts, and
\* once it is drained N \div C + 1 batches, all of C rows but the last,
\* which has N % C rows
StreamShape ==
    LET N == Len(Docs)
        C == CHUNK_SIZE
    IN  /\ (pc = "stream" \/ (pc = "yielded" /\ might_have_more_docs)) =>
              /\ might_have_more_docs
              /\ Len(emitted) <= N \div C
              /\ \A k \in 1..Len(emitted) : emitted[k].len = C
        /\ SourceDrained =>
              /\ ~might_have_more_docs
              /\ Len(emitted) = (N \div C) + 1
              /\ \A k \in 1..(Len(emitted) - 1) : emitted[k].len = C
              /\ emitted[Len(emitted)].len = N % C

\* what is left of the stream: three per document still to pull, and the
\* place in the round full chunk (4), suspended with more to come (3), chunk
\* with room (2), suspended with the source drained (1), complete (0)
Remaining ==
    3 * (Len(Docs) - documents)
        + (IF pc = "stream"
           THEN (IF ChunkHasRoom(doc_count, CHUNK_SIZE) THEN 2 ELSE 4)
           ELSE IF pc = "yielded"
           THEN (IF might_have_more_docs THEN 3 ELSE 1)
           ELSE 0)

\* a stream that has not completed can take a step: a document is there to
\* encode (the guard of EncodeDocument, whose other conjuncts only assign),
\* or the chunk can be yielded, or the next chunk started, or the stream
\* can complete
CanStep ==
    \/ (pc = "stream" /\ ChunkHasRoom(doc_count, CHUNK_SIZE) /\ documents < Len(Docs))
    \/ ENABLED ChunkFull
    \/ ENABLED SourceExhausted
    \/ ENABLED NextChunk
    \/ ENABLED StreamEnds

\* C12: a started stream completes (it can always take a step, and every
\* step lowers a measure that is never negative), having emitted exactly
\* N \div C + 1 batches: C rows in each but the last, N % C rows in the
\* last (zero rows when C divides N); once the source was found exhausted
\* no further batch is emitted.
C12_StreamTerminatesWithBatchCount ==
    /\ [](StreamShape /\ Remaining >= 0
            /\ (pc \in { "stream", "yielded" } => CanStep))
    /\ [][(pc \in { "stream", "yielded" }) => (Remaining' < Remaining)]_vars
    /\ [][SourceDrained => (emitted' = emitted)]_vars

\* a completed stream whose last batch has no rows, after full batches
C12_Witness ==
    /\ pc = "written"
    /\ Len(Docs) >= 2
    /\ Len(emitted) >= 2
    /\ emitted[Len(emitted)].len = 0
    /\ emitted[1].len = CHUNK_SIZE

====
